---- MODULE Spec2Model ----
(***************************************************************************)
(* Model of term_prep_plus (src/src/main.rs): the Exam / Question data     *)
(* model (PartialEq and Hash of Question, the HashSet the Exam keeps its   *)
(* questions in) and Exam::study, the quiz session loop.                   *)
(*                                                                         *)
(* A HashSet is modelled by the sequence of its members in the iteration   *)
(* order of that instance: the order is fixed for one (unmodified)         *)
(* instance and differs from instance to instance (std's RandomState gives *)
(* every HashSet its own keys), so it is chosen nondeterministically when  *)
(* the instance is built.  A line of input is modelled by what the code    *)
(* reads of it: the parsed number, the code point of the first character   *)
(* of each comma-separated piece, or the whole trimmed string.             *)
(***************************************************************************)
EXTENDS Integers, Sequences, FiniteSets, TLC

VARIABLES
    pc,               \* where the process is (see PcValues)
    overflow_checks,  \* the build: TRUE panics on integer overflow (debug), FALSE wraps (release)
    exam_dir,         \* get_exam: the exam files listed, in the order of the listing (<<>> outside the selection)
    exam_path,        \* get_exam: the file selected from the listing (0: none)
    exam,             \* Exam.questions, in the iteration order of this HashSet instance
    depth,            \* number of active invocations of Exam::study
    num_correct,      \* local of the running study invocation
    num_questions,    \* local of the running study invocation
    idx,              \* position of the for loop: questions taken so far
    choices,          \* local `choices` / `hints` collected for the current question
    out,              \* what the last step printed, in order: <<kind, payload>> tokens
    response,         \* history: the accepted response to the current question, as the set of strings it denotes
    requested,        \* history: the count the user entered and that was accepted
    presented,        \* history: positions in exam of the questions presented this session
    verdicts          \* history: verdicts issued this session, in order

vars == <<pc, overflow_checks, exam_dir, exam_path, exam, depth, num_correct, num_questions, idx,
          choices, out, response, requested, presented, verdicts>>

(***************************************************************************)
(* Bounds of the model.                                                    *)
(***************************************************************************)
MaxQuestions == 2     \* questions in one exam document
MaxDepth == 2         \* nested study invocations explored (replays + 1)
MaxPicks == 2         \* comma-separated pieces in one multiple-select response
MaxFiles == 2         \* exam files in the chosen directory

\* The locals of Exam::get_exam.
selection == <<exam_dir, exam_path>>

Range(s) == {s[i] : i \in DOMAIN s}

MinNoClamp(a, b) == a

\* std::cmp::min
Min(a, b) == IF a < b THEN a ELSE b

SeqsUpTo(S, n) == UNION {[1..k -> S] : k \in 0..n}

Perms(s) ==
    {[i \in 1..Len(s) |-> s[f[i]]] :
        f \in {g \in [1..Len(s) -> 1..Len(s)] : \A i, j \in 1..Len(s) : g[i] = g[j] => i = j}}

(***************************************************************************)
(* Question: the struct, its PartialEq and its Hash.                       *)
(***************************************************************************)
Question(t, c, a, e, r) ==
    [q_type |-> t, prompt |-> "p", choices |-> c, answer |-> a, explanation |-> e, refs |-> r]

\* PartialEq for Question: field by field; `choices` is a HashSet, so it is
\* compared as a set, whatever the iteration order of the two instances.
QEq(a, b) ==
    /\ a.q_type = b.q_type
    /\ a.prompt = b.prompt
    /\ Range(a.choices) = Range(b.choices)
    /\ a.answer = b.answer
    /\ a.explanation = b.explanation
    /\ a.refs = b.refs

\* Hash for Question: what is fed to the hasher, in order.  The hasher is
\* taken to be collision free, so the hash is the sequence fed to it; the
\* choices are fed in the iteration order of this instance's HashSet.
QHash(q) ==
    <<q.q_type, q.prompt>> \o q.choices \o q.answer \o <<q.explanation>> \o q.refs

(***************************************************************************)
(* The exam documents the loader is given.                                 *)
(***************************************************************************)
\* Two instances of one question, whose choices iterate in either order.
MCQuestions ==
    {Question("mc", c, <<"x">>, "e", <<"r">>) : c \in {<<"x", "X">>, <<"X", "x">>}}

MSQuestions ==
    {Question("ms", <<"x", "y">>, a, "", <<>>) : a \in {<<"x">>, <<"y", "x">>, <<"x", "x">>}}

\* One without hints (its only choice is the empty string), one with.
UEQuestions ==
    {Question("ue", ca[1], ca[2], "", <<"r">>) :
        ca \in {<<<<"">>, <<"y">>>>, <<<<"h">>, <<"x", "hint">>>>}}

OtherQuestions == {Question("tf", <<"x">>, <<"x">>, "e", <<>>)}

QuestionPool == MCQuestions \cup MSQuestions \cup UEQuestions \cup OtherQuestions

Documents == SeqsUpTo(QuestionPool, MaxQuestions)

\* HashSet::insert: the new value is dropped when the table already holds a
\* value with the same hash that is == to it.
HashSetInsert(set, q) ==
    IF \E i \in DOMAIN set : QHash(set[i]) = QHash(q) /\ QEq(set[i], q)
    THEN set
    ELSE Append(set, q)

RECURSIVE InsertAll(_, _)
InsertAll(set, doc) ==
    IF doc = <<>> THEN set
    ELSE InsertAll(HashSetInsert(set, Head(doc)), Tail(doc))

\* serde's Deserialize for HashSet<Question>: every element of the array is
\* inserted; the resulting table iterates in some order of its members.
Deserialize(doc) == Perms(InsertAll(<<>>, doc))

(***************************************************************************)
(* The user's entries.  Characters are code points.                        *)
(***************************************************************************)
NotANumber == -1      \* an entry that str::parse::<usize> rejects
NoChar == -1          \* an empty piece: chars().next() is None
UsizeMax == 2147483647   \* stands for usize::MAX (the largest integer of the checker): beyond every Vec

ExamNumberEntries == {NotANumber} \cup (0..(MaxFiles + 1))
CountEntries == {NotANumber} \cup (0..(MaxQuestions + 1))
LetterEntries == {97, 98, 99, 65, 353}          \* 'a' 'b' 'c' 'A' and U+0161
PlayAgainEntries == {121, 89, 110, 97}          \* 'y' 'Y' 'n' 'a'
PickLetters == {97, 98, 99, 65, NoChar}          \* 'a' 'b' 'c' 'A' and the empty piece
PickEntries == {s \in SeqsUpTo(PickLetters, MaxPicks) : s # <<>>}
UEEntries == {"x", "y", "hint", "HINT"}

RecognizedTypes == {"mc", "ms", "ue"}

\* str::eq_ignore_ascii_case on the strings of the model: both sides are
\* compared after folding the ASCII letters to lower case.
AsciiLower(s) == IF s = "HINT" THEN "hint" ELSE IF s = "X" THEN "x" ELSE s

EqIgnoreAsciiCase(a, b) == AsciiLower(a) = AsciiLower(b)

\* `(c as u8 - b'a') as usize`: the cast keeps the low 8 bits of the code
\* point; the subtraction overflows when the byte is below b'a'.
AsU8(c) == c % 256

Overflows(c) == c # NoChar /\ AsU8(c) < 97

ChoiceAsIndex(c) ==
    IF c = NoChar THEN UsizeMax
    ELSE IF AsU8(c) < 97 THEN AsU8(c) - 97 + 256
    ELSE AsU8(c) - 97

\* Vec::get
Get(v, i) == IF i < Len(v) THEN <<v[i + 1]>> ELSE <<>>

\* Exam::display_choices_and_collect, the Vec it returns.
DisplayChoicesAndCollect(q) ==
    IF q.q_type \in {"mc", "ms"} THEN q.choices
    ELSE IF q.q_type = "ue" THEN SelectSeq(q.choices, LAMBDA c : c # "")
    ELSE <<>>

\* Exam::display_choices_and_collect, the lines it prints: a label and the
\* choice for "mc" and "ms", nothing for "ue".
ChoiceLines(q) ==
    IF q.q_type \in {"mc", "ms"}
    THEN [i \in 1..Len(q.choices) |-> <<"Choice", <<(i - 1) + 97, q.choices[i]>>>>]
    ELSE <<>>

\* Exam::display_hints
HintLines(hints) == [i \in 1..Len(hints) |-> <<"Hint", <<hints[i]>>>>]

Tok(kind) == <<kind, <<>>>>

PrintedIn(o, kind) == \E i \in DOMAIN o : o[i][1] = kind

Printed(kind) == PrintedIn(out, kind)

CurrentQuestion == exam[idx]

TakeHasNextNoCount(taken, n) == taken < Len(exam)

TakeOnlyFirst(taken, n) == taken < n /\ taken < Len(exam) /\ taken < 1

\* `self.questions.iter().take(num_questions)`: there is a next question
\* while fewer than n were taken and the set's iterator has one left.
TakeHasNext(taken, n) == taken < n /\ taken < Len(exam)

(***************************************************************************)
(* main and Exam::new / Exam::get_exam.                                    *)
(***************************************************************************)
Init ==
    /\ pc = "new"
    /\ overflow_checks \in BOOLEAN
    /\ exam_dir = <<>>
    /\ exam_path = 0
    /\ exam = <<>>
    /\ depth = 0
    /\ num_correct = 0
    /\ num_questions = 0
    /\ idx = 0
    /\ choices = <<>>
    /\ out = <<>>
    /\ response = {}
    /\ requested = 0
    /\ presented = <<>>
    /\ verdicts = <<>>

\* The head of Exam::study: a fresh num_correct and the name of the exam.
\* The variables describe the innermost invocation; the locals of the outer
\* ones are dead (the recursive call is the last thing the 'y' arm does).
StudyBegin ==
    /\ depth' = depth + 1
    /\ num_correct' = 0
    /\ num_questions' = 0
    /\ idx' = 0
    /\ choices' = <<>>
    /\ response' = {}
    /\ requested' = 0
    /\ presented' = <<>>
    /\ verdicts' = <<>>
    /\ out' = <<Tok("ExamSelected")>>
    /\ pc' = "count"

\* Exam::new when the working directory or the assets directory fails:
\* None, and main exits with status 1.
NewFails ==
    /\ pc = "new"
    /\ pc' = "exit1"
    /\ out' = <<Tok("UnableToCreateExam"), Tok("UnableToStudy")>>
    /\ UNCHANGED <<overflow_checks, selection, exam, depth, num_correct, num_questions, idx,
                   choices, response, requested, presented, verdicts>>

\* Exam::new when the assets directory exists or is created: get_exam
\* starts its selection loop.
CreateAssetDir ==
    /\ pc = "new"
    /\ pc' = "select_dir"
    /\ \E msg \in {"AssetsDirExists", "AssetsDirCreated"} : out' = <<Tok(msg)>>
    /\ UNCHANGED <<overflow_checks, selection, exam, depth, num_correct, num_questions, idx,
                   choices, response, requested, presented, verdicts>>

\* Exam::display_and_collect_available_exams, the lines it prints: the
\* files numbered from 1.
ExamLines(files) ==
    <<Tok("ExamFilesFound")>> \o [i \in 1..Len(files) |-> <<"ExamFile", <<i, files[i]>>>>]

\* One round of the outer loop of get_exam up to the exam-number prompt:
\* select_asset_directory asks again on an invalid option or directory; a
\* directory that cannot be read or that holds no exam file sends the loop
\* round again; otherwise the files are listed.  A file is named by its
\* position in the directory.
SelectDirectory ==
    /\ pc = "select_dir"
    /\ \/ /\ \E msg \in {"EnterValidOption", "EnterValidDirectory"} : out' = <<Tok(msg)>>
          /\ UNCHANGED <<pc, selection>>
       \/ /\ out' = <<Tok("UnableToReadFiles"), Tok("UnableToGetList")>>
          /\ UNCHANGED <<pc, selection>>
       \/ \E n \in 0..MaxFiles :
             LET files == [i \in 1..n |-> i] IN
             IF n = 0
             THEN /\ out' = ExamLines(files) \o <<Tok("NoExamFiles")>>
                  /\ UNCHANGED <<pc, selection>>
             ELSE /\ out' = ExamLines(files)
                  /\ exam_dir' = files
                  /\ exam_path' = 0
                  /\ pc' = "select_exam"
    /\ UNCHANGED <<overflow_checks, exam, depth, num_correct, num_questions, idx,
                   choices, response, requested, presented, verdicts>>

\* `parse::<usize>().unwrap_or(usize::MAX) - 1`: the subtraction overflows
\* for the entry 0.
ExamIndex(entry) ==
    IF entry = NotANumber THEN UsizeMax - 1
    ELSE IF entry = 0 THEN UsizeMax
    ELSE entry - 1

\* One entry at the exam-number prompt.
ExamNumberEntry(entry) ==
    /\ pc = "select_exam"
    /\ IF entry = 0 /\ overflow_checks
       THEN /\ pc' = "panic_exam_number"
            /\ out' = <<Tok("PanicOverflow")>>
            /\ UNCHANGED selection
       ELSE LET exam_file == Get(exam_dir, ExamIndex(entry)) IN
            IF exam_file # <<>>
            THEN /\ exam_path' = exam_file[1]
                 /\ out' = <<>>
                 /\ pc' = "open"
                 /\ UNCHANGED exam_dir
            ELSE /\ out' = <<Tok("MakeValidSelection")>>
                 /\ UNCHANGED <<pc, selection>>
    /\ UNCHANGED <<overflow_checks, exam, depth, num_correct, num_questions, idx,
                   choices, response, requested, presented, verdicts>>

EnterExamNumber == \E entry \in ExamNumberEntries : ExamNumberEntry(entry)

\* Exam::get_exam when the selected file cannot be opened or parsed: the
\* error is printed and the selection loop goes round again.
LoadFails ==
    /\ pc = "open"
    /\ \E msg \in {"UnableToParse", "UnableToOpen"} : out' = <<Tok(msg)>>
    /\ pc' = "select_dir"
    /\ exam_dir' = <<>>
    /\ exam_path' = 0
    /\ UNCHANGED <<overflow_checks, exam, depth, num_correct, num_questions, idx,
                   choices, response, requested, presented, verdicts>>

\* Exam::get_exam when the selected file parses: serde accepts any string
\* as q_type; main then calls study on the exam.
LoadExam ==
    /\ pc = "open"
    /\ \E doc \in Documents : exam' \in Deserialize(doc)
    /\ exam_dir' = <<>>
    /\ exam_path' = 0
    /\ StudyBegin
    /\ UNCHANGED overflow_checks

(***************************************************************************)
(* Exam::study.                                                            *)
(***************************************************************************)
\* The count prompt: Ok(num) if num > 0 breaks with min(num, len); anything
\* else prints the error and asks again.  With a count of 0 the for loop
\* has nothing to take and the play-again prompt follows.
CountEntryAcceptsZero(entry) ==
    /\ pc = "count"
    /\ IF entry # NotANumber /\ entry >= 0
       THEN /\ num_questions' = Min(entry, Len(exam))
            /\ requested' = entry
            /\ out' = <<>>
            /\ pc' = IF TakeHasNext(0, Min(entry, Len(exam))) THEN "present" ELSE "play_again"
       ELSE /\ out' = <<Tok("EnterPositiveNumber")>>
            /\ UNCHANGED <<pc, num_questions, requested>>
    /\ UNCHANGED <<overflow_checks, selection, exam, depth, num_correct, idx, choices,
                   response, presented, verdicts>>

CountEntry(entry) ==
    /\ pc = "count"
    /\ IF entry # NotANumber /\ entry > 0
       THEN /\ num_questions' = Min(entry, Len(exam))
            /\ requested' = entry
            /\ out' = <<>>
            /\ pc' = IF TakeHasNext(0, Min(entry, Len(exam))) THEN "present" ELSE "play_again"
       ELSE /\ out' = <<Tok("EnterPositiveNumber")>>
            /\ UNCHANGED <<pc, num_questions, requested>>
    /\ UNCHANGED <<overflow_checks, selection, exam, depth, num_correct, idx, choices,
                   response, presented, verdicts>>

AskCount == \E entry \in CountEntries : CountEntry(entry)

\* The head of the loop body: the iterator yields the next question, its
\* prompt is printed and the match on q_type either collects the choices
\* (and prints them) or panics.
Present ==
    /\ pc = "present"
    /\ idx' = idx + 1
    /\ presented' = Append(presented, idx + 1)
    /\ response' = {}
    /\ LET q == exam[idx + 1] IN
        IF q.q_type \in RecognizedTypes
        THEN /\ choices' = DisplayChoicesAndCollect(q)
             /\ out' = <<Tok("Prompt")>> \o ChoiceLines(q)
             /\ pc' = "respond"
        ELSE /\ choices' = <<>>
             /\ out' = <<Tok("Prompt"), Tok("PanicQType")>>
             /\ pc' = "panic_q_type"
    /\ UNCHANGED <<overflow_checks, selection, exam, depth, num_correct, num_questions,
                   requested, verdicts>>

VerdictNeverAnswers(is_correct) ==
    /\ num_correct' = IF is_correct THEN num_correct + 1 ELSE num_correct
    /\ verdicts' = Append(verdicts, IF is_correct THEN "Correct" ELSE "Incorrect")
    /\ out' = IF is_correct THEN <<Tok("Correct")>> ELSE <<Tok("Incorrect")>>
    /\ pc' = "explain"

\* The verdict of a question: "Correct!" and num_correct += 1, or
\* "Incorrect..." followed by the correct answer(s).
Verdict(is_correct) ==
    /\ num_correct' = IF is_correct THEN num_correct + 1 ELSE num_correct
    /\ verdicts' = Append(verdicts, IF is_correct THEN "Correct" ELSE "Incorrect")
    /\ out' = IF is_correct
              THEN <<Tok("Correct")>>
              ELSE <<Tok("Incorrect"), <<"CorrectAnswers", CurrentQuestion.answer>>>>
    /\ pc' = "explain"

GradeMCIgnoreCase(q, user_answer) ==
    Get(q.answer, 0) # <<>> /\ EqIgnoreAsciiCase(user_answer, Get(q.answer, 0)[1])

\* "mc" grading: answer.get(0) against the chosen option.
GradeMC(q, user_answer) ==
    Get(q.answer, 0) # <<>> /\ user_answer = Get(q.answer, 0)[1]

\* One entry at the "mc" prompt; c is the first character of the entry.
MCEntry(c) ==
    /\ pc = "respond"
    /\ CurrentQuestion.q_type = "mc"
    /\ IF Overflows(c) /\ overflow_checks
       THEN /\ pc' = "panic_overflow"
            /\ out' = <<Tok("PanicOverflow")>>
            /\ UNCHANGED <<num_correct, verdicts, response>>
       ELSE LET choice == Get(choices, ChoiceAsIndex(c)) IN
            IF choice # <<>>
            THEN /\ response' = {choice[1]}
                 /\ Verdict(GradeMC(CurrentQuestion, choice[1]))
            ELSE /\ out' = <<Tok("PickValidAnswer")>>
                 /\ UNCHANGED <<pc, num_correct, verdicts, response>>
    /\ UNCHANGED <<overflow_checks, selection, exam, depth, num_questions, idx, choices,
                   requested, presented>>

AnswerMC == \E c \in LetterEntries : MCEntry(c)

GradeMSNoSizeCheck(q, user_sel) == user_sel \ Range(q.answer) = {}

\* "ms" grading: when the selection has as many members as answer has
\* entries, every entry of answer is removed from it; correct when nothing
\* is left.
GradeMS(q, user_sel) ==
    LET left == IF Cardinality(user_sel) = Len(q.answer)
                THEN user_sel \ Range(q.answer)
                ELSE user_sel
    IN left = {}

\* One entry at the "ms" prompt: the pieces are taken in order; a piece
\* that denotes no choice prints an error and sets has_bad_input.
BadPieces(picks) == SelectSeq(picks, LAMBDA c : Get(choices, ChoiceAsIndex(c)) = <<>>)

MSEntryRemovesFromQuestion(picks) ==
    /\ pc = "respond"
    /\ CurrentQuestion.q_type = "ms"
    /\ IF overflow_checks /\ \E i \in DOMAIN picks : Overflows(picks[i])
       THEN /\ pc' = "panic_overflow"
            /\ LET first == CHOOSE i \in DOMAIN picks :
                               /\ Overflows(picks[i])
                               /\ \A j \in 1..(i - 1) : ~Overflows(picks[j])
              IN out' = [i \in 1..Len(BadPieces(SubSeq(picks, 1, first - 1))) |->
                             Tok("EnterValidSelection")] \o <<Tok("PanicOverflow")>>
            /\ UNCHANGED <<num_correct, verdicts, response, exam>>
       ELSE IF BadPieces(picks) = <<>>
            THEN LET user_sel == {Get(choices, ChoiceAsIndex(picks[i]))[1] : i \in DOMAIN picks}
                     q == CurrentQuestion
                     left == SelectSeq(q.choices, LAMBDA c : c \notin Range(q.answer))
                 IN /\ response' = user_sel
                    /\ exam' = IF Cardinality(user_sel) = Len(q.answer)
                               THEN [exam EXCEPT ![idx].choices = left]
                               ELSE exam
                    /\ Verdict(GradeMS(q, user_sel))
            ELSE /\ out' = [i \in 1..Len(BadPieces(picks)) |-> Tok("EnterValidSelection")]
                 /\ UNCHANGED <<pc, num_correct, verdicts, response, exam>>
    /\ UNCHANGED <<overflow_checks, selection, depth, num_questions, idx, choices,
                   requested, presented>>

MSEntry(picks) ==
    /\ pc = "respond"
    /\ CurrentQuestion.q_type = "ms"
    /\ IF overflow_checks /\ \E i \in DOMAIN picks : Overflows(picks[i])
       THEN /\ pc' = "panic_overflow"
            /\ LET first == CHOOSE i \in DOMAIN picks :
                               /\ Overflows(picks[i])
                               /\ \A j \in 1..(i - 1) : ~Overflows(picks[j])
              IN out' = [i \in 1..Len(BadPieces(SubSeq(picks, 1, first - 1))) |->
                             Tok("EnterValidSelection")] \o <<Tok("PanicOverflow")>>
            /\ UNCHANGED <<num_correct, verdicts, response>>
       ELSE IF BadPieces(picks) = <<>>
            THEN LET user_sel == {Get(choices, ChoiceAsIndex(picks[i]))[1] : i \in DOMAIN picks} IN
                 /\ response' = user_sel
                 /\ Verdict(GradeMS(CurrentQuestion, user_sel))
            ELSE /\ out' = [i \in 1..Len(BadPieces(picks)) |-> Tok("EnterValidSelection")]
                 /\ UNCHANGED <<pc, num_correct, verdicts, response>>
    /\ UNCHANGED <<overflow_checks, selection, exam, depth, num_questions, idx, choices,
                   requested, presented>>

AnswerMS == \E picks \in PickEntries : MSEntry(picks)

\* "ue" grading: any entry of answer equal to the response.
GradeUE(q, user_ans) == \E i \in DOMAIN q.answer : user_ans = q.answer[i]

\* One entry at the "ue" prompt: "hint" in any case shows the hints (or
\* says there are none) and asks again; anything else is the answer.
UEEntryHintIsAttempt(input) ==
    /\ pc = "respond"
    /\ CurrentQuestion.q_type = "ue"
    /\ IF EqIgnoreAsciiCase(input, "hint") /\ Len(choices) > 0
       THEN /\ out' = HintLines(choices)
            /\ UNCHANGED <<pc, num_correct, verdicts, response>>
       ELSE /\ response' = {input}
            /\ Verdict(GradeUE(CurrentQuestion, input))
    /\ UNCHANGED <<overflow_checks, selection, exam, depth, num_questions, idx, choices,
                   requested, presented>>

UEEntry(input) ==
    /\ pc = "respond"
    /\ CurrentQuestion.q_type = "ue"
    /\ IF EqIgnoreAsciiCase(input, "hint")
       THEN /\ out' = IF Len(choices) > 0 THEN HintLines(choices) ELSE <<Tok("NoHints")>>
            /\ UNCHANGED <<pc, num_correct, verdicts, response>>
       ELSE /\ response' = {input}
            /\ Verdict(GradeUE(CurrentQuestion, input))
    /\ UNCHANGED <<overflow_checks, selection, exam, depth, num_questions, idx, choices,
                   requested, presented>>

AnswerUE == \E input \in UEEntries : UEEntry(input)

ExplanationLinesSkipEmptyRefs(q) ==
    (IF q.explanation # "" THEN <<<<"Explanation", <<q.explanation>>>>>> ELSE <<>>)
        \o (IF q.refs # <<>> THEN <<<<"References", q.refs>>>> ELSE <<>>)

\* After the verdict and the pause: the explanation when there is one, the
\* references always; then the loop takes the next question or ends.
ExplanationLines(q) ==
    (IF q.explanation # "" THEN <<<<"Explanation", <<q.explanation>>>>>> ELSE <<>>)
        \o <<<<"References", q.refs>>>>

Explain ==
    /\ pc = "explain"
    /\ out' = ExplanationLines(CurrentQuestion)
    /\ pc' = IF TakeHasNext(idx, num_questions) THEN "present" ELSE "play_again"
    /\ UNCHANGED <<overflow_checks, selection, exam, depth, num_correct, num_questions, idx,
                   choices, response, requested, presented, verdicts>>

\* The play-again prompt answered 'y' or 'Y': study calls itself.
PlayAgainYes ==
    /\ pc = "play_again"
    /\ \E c \in PlayAgainEntries : c \in {121, 89}
    /\ depth < MaxDepth
    /\ StudyBegin
    /\ UNCHANGED <<overflow_checks, selection, exam>>

\* The play-again prompt answered anything else: the score of this
\* invocation is printed and it returns.
PlayAgainNo ==
    /\ pc = "play_again"
    /\ \E c \in PlayAgainEntries : c \notin {121, 89}
    /\ out' = <<<<"Score", <<num_correct, num_questions>>>>, Tok("GreatProgress")>>
    /\ depth' = depth - 1
    /\ pc' = IF depth = 1 THEN "done" ELSE "unwind"
    /\ UNCHANGED <<overflow_checks, selection, exam, num_correct, num_questions, idx, choices,
                   response, requested, presented, verdicts>>

\* An outer invocation, back from the call in its 'y' arm, returns without
\* printing anything.
Unwind ==
    /\ pc = "unwind"
    /\ out' = <<>>
    /\ depth' = depth - 1
    /\ pc' = IF depth = 1 THEN "done" ELSE "unwind"
    /\ UNCHANGED <<overflow_checks, selection, exam, num_correct, num_questions, idx, choices,
                   response, requested, presented, verdicts>>

Next ==
    \/ NewFails
    \/ CreateAssetDir
    \/ SelectDirectory
    \/ EnterExamNumber
    \/ LoadFails
    \/ LoadExam
    \/ AskCount
    \/ Present
    \/ AnswerMC
    \/ AnswerMS
    \/ AnswerUE
    \/ Explain
    \/ PlayAgainYes
    \/ PlayAgainNo
    \/ Unwind

Spec == Init /\ [][Next]_vars

(***************************************************************************)
(* Properties.                                                             *)
(***************************************************************************)
LastVerdict == verdicts[Len(verdicts)]

CorrectCount == Cardinality({i \in DOMAIN verdicts : verdicts[i] = "Correct"})

ClampedCount == IF requested < Len(exam) THEN requested ELSE Len(exam)

Grading(t) == pc = "respond" /\ CurrentQuestion.q_type = t /\ pc' = "explain"

Graded(t) == pc = "explain" /\ CurrentQuestion.q_type = t

\* C1: a session presents exactly min(n, |Q|) questions for the accepted
\* count n, never more than |Q|, and the questions it presents are pairwise
\* distinct members of the exam's question set.
C1_PresentsClampedCount ==
    /\ Range(presented) \subseteq DOMAIN exam
    /\ \A i, j \in DOMAIN presented :
          i # j => presented[i] # presented[j] /\ exam[presented[i]] # exam[presented[j]]
    /\ Len(presented) <= Len(exam)
    /\ requested > 0 => Len(presented) <= requested
    /\ pc \in {"play_again", "unwind", "done"} => Len(presented) = ClampedCount

C1_Witness ==
    /\ pc = "play_again"
    /\ Len(exam) = 2
    /\ requested > Len(exam)
    /\ Len(presented) = 2

\* C2: grading an "mc" question, the verdict is Correct and the score goes
\* up by one when the chosen option is exactly answer[0]; it is Incorrect
\* and the score stays when another available option is chosen (an option
\* that differs from answer[0] only in letter case included).
C2_SingleChoiceGrading ==
    [][Grading("mc") =>
          \E s \in Range(CurrentQuestion.choices) :
             /\ response' = {s}
             /\ Len(CurrentQuestion.answer) > 0 =>
                   IF s = CurrentQuestion.answer[1]
                   THEN /\ PrintedIn(out', "Correct")
                        /\ ~PrintedIn(out', "Incorrect")
                        /\ num_correct' = num_correct + 1
                   ELSE /\ PrintedIn(out', "Incorrect")
                        /\ ~PrintedIn(out', "Correct")
                        /\ num_correct' = num_correct]_vars

C2_Witness ==
    /\ Graded("mc")
    /\ response = {"X"}
    /\ CurrentQuestion.answer = <<"x">>
    /\ LastVerdict = "Incorrect"

\* C3 as stated: an "ms" question is graded Correct if and only if the set
\* of selected options equals the set of entries of answer.
C3_MultiSelectSetEquality ==
    Graded("ms") => (LastVerdict = "Correct" <=> response = Range(CurrentQuestion.answer))

\* C3 as amended: an "ms" question is graded Correct if and only if the set
\* of selected options equals the set of entries of answer and answer has
\* no repeated entry; a strict subset, a strict superset or a same-size
\* selection with a wrong member is graded Incorrect.
C3_MultiSelectGrading ==
    Graded("ms") =>
        LET answer == CurrentQuestion.answer IN
        /\ LastVerdict = "Correct" <=>
              (response = Range(answer) /\ Cardinality(Range(answer)) = Len(answer))
        /\ response # Range(answer) => LastVerdict = "Incorrect"

C3_Witness ==
    /\ Graded("ms")
    /\ CurrentQuestion.answer = <<"y", "x">>
    /\ response = {"x", "y"}
    /\ LastVerdict = "Correct"

\* C4: a "ue" response is graded Correct if and only if it equals an entry
\* of answer, and for every entry of answer some entry of the user is
\* accepted as a response and graded Correct for it.
C4_FreeEntryGrading ==
    /\ Graded("ue") =>
          (LastVerdict = "Correct" <=> response \subseteq Range(CurrentQuestion.answer))
    /\ (pc = "respond" /\ CurrentQuestion.q_type = "ue") =>
          \A i \in DOMAIN CurrentQuestion.answer :
             ENABLED (/\ AnswerUE
                      /\ response' = {CurrentQuestion.answer[i]}
                      /\ verdicts' = Append(verdicts, "Correct"))

\* C5: the score reported when the user declines to play again is
\* correct/total with total the number of questions presented in the
\* session (the clamped count), correct the number of them graded Correct,
\* and 0 <= correct <= total.
C5_ReportedScore ==
    \A i \in DOMAIN out :
        out[i][1] = "Score" =>
            LET correct == out[i][2][1]
                total == out[i][2][2]
            IN /\ total = Len(presented)
               /\ total = ClampedCount
               /\ Len(verdicts) = total
               /\ correct = CorrectCount
               /\ 0 <= correct /\ correct <= total

C5_Witness ==
    /\ Len(exam) = 1
    /\ verdicts = <<"Correct">>
    /\ \E i \in DOMAIN out : out[i] = <<"Score", <<1, 1>>>>

\* C6: whenever a session leaves the play-again prompt, to terminate or to
\* restart, its score is reported.
C6_ScoreAtEveryConclusion ==
    [][(pc = "play_again" /\ pc' # "play_again") =>
          \E i \in DOMAIN out' : out'[i] = <<"Score", <<num_correct, num_questions>>>>]_vars

\* C7 as stated: after grading, the correct answers are displayed whatever
\* the verdict.
C7_AnswersAlwaysDisplayed ==
    pc = "explain" => \E i \in DOMAIN out : out[i] = <<"CorrectAnswers", CurrentQuestion.answer>>

\* C7 as amended: after grading a question of any type, the correct answers
\* are displayed when the verdict is Incorrect and are not displayed when
\* the verdict is Correct.
C7_AnswersDisplayedWhenIncorrect ==
    pc = "explain" =>
        /\ Printed(LastVerdict)
        /\ LastVerdict = "Incorrect" =>
              \E i \in DOMAIN out : out[i] = <<"CorrectAnswers", CurrentQuestion.answer>>
        /\ LastVerdict = "Correct" => ~Printed("CorrectAnswers")

C7_Witness ==
    /\ pc = "explain"
    /\ LastVerdict = "Incorrect"
    /\ out = <<Tok("Incorrect"), <<"CorrectAnswers", CurrentQuestion.answer>>>>

\* C8: after the verdict of any question and before the next question is
\* presented, the references are displayed (even when there are none) and
\* the explanation is displayed if and only if it is not empty.
C8_ExplanationAndReferences ==
    [][/\ pc' = "explain" =>
             /\ pc = "respond"
             /\ PrintedIn(out', LastVerdict')
             /\ ~PrintedIn(out', "Explanation") /\ ~PrintedIn(out', "References")
       /\ pc = "explain" =>
             /\ pc' \in {"present", "play_again"}
             /\ presented' = presented /\ verdicts' = verdicts
             /\ \E i \in DOMAIN out' : out'[i] = <<"References", CurrentQuestion.refs>>
             /\ CurrentQuestion.explanation # "" <=>
                   \E i \in DOMAIN out' : out'[i] = <<"Explanation", <<CurrentQuestion.explanation>>>>
             /\ CurrentQuestion.explanation = "" => ~PrintedIn(out', "Explanation")
       /\ pc' = "present" => pc \in {"count", "explain"}]_vars

C8_Witness ==
    /\ pc \in {"present", "play_again"}
    /\ idx > 0
    /\ CurrentQuestion.explanation = ""
    /\ out = <<<<"References", <<>>>>>>

\* C9: every exam that is loaded has only questions of a recognized type,
\* and no run aborts in the q_type dispatch of a session.
C9_UnrecognizedTypeRejectedAtLoad ==
    /\ \A i \in DOMAIN exam : exam[i].q_type \in RecognizedTypes
    /\ pc # "panic_q_type"

\* C10: on the Questions of a loaded exam, == is reflexive, symmetric and
\* transitive, and Questions that are == have the same hash.
C10_EqualQuestionsHashEqual ==
    \A a, b, c \in Range(exam) :
        /\ QEq(a, a)
        /\ QEq(a, b) => QEq(b, a)
        /\ (QEq(a, b) /\ QEq(b, c)) => QEq(a, c)
        /\ QEq(a, b) => QHash(a) = QHash(b)

\* C11: a question that the document holds twice is a single member of the
\* loaded exam: no two members of the question set are ==, so no session
\* presents a question twice.
C11_DuplicatesCollapse ==
    /\ \A i, j \in DOMAIN exam : QEq(exam[i], exam[j]) => i = j
    /\ \A i, j \in DOMAIN presented :
          QEq(exam[presented[i]], exam[presented[j]]) => i = j

InSession == pc \in {"present", "respond", "explain", "play_again"}

\* C12 as stated: the count a session runs with is at least 1, for every
\* loaded exam.
C12_SessionCountAtLeastOne == InSession => num_questions >= 1

\* C12 as amended: an entry at the count prompt is accepted only when it
\* parses as an integer greater than 0; any other entry prints the error and
\* asks again, nothing else changing.  The accepted count is at least 1 and
\* the session runs with min(count, |Q|), which is at least 1 for every exam
\* with a question and 0 for an exam without questions.
C12_CountAccepted ==
    /\ pc = "count" =>
          \A entry \in CountEntries :
             IF entry # NotANumber /\ entry >= 1
             THEN /\ ENABLED (CountEntry(entry) /\ pc' # "count" /\ requested' = entry)
                  /\ ~ENABLED (CountEntry(entry) /\ pc' = "count")
             ELSE /\ ENABLED (/\ CountEntry(entry)
                              /\ out' = <<Tok("EnterPositiveNumber")>>
                              /\ UNCHANGED <<pc, exam, depth, num_correct, num_questions, idx,
                                             requested, presented, verdicts>>)
                  /\ ~ENABLED (CountEntry(entry) /\ pc' # "count")
    /\ InSession =>
          /\ requested >= 1
          /\ num_questions = ClampedCount
          /\ Len(exam) >= 1 => num_questions >= 1
          /\ Len(exam) = 0 => num_questions = 0

C12_Witness ==
    /\ pc = "count"
    /\ out = <<Tok("EnterPositiveNumber")>>
    /\ requested = 0

\* C13: when the user plays again, the new session need not start with the
\* question the sessions of this exam have started with so far (the first
\* in the iteration order of the question set): presenting another one
\* first is possible.
C13_ReplayOrderNotFixed ==
    (pc = "present" /\ depth > 1 /\ idx = 0 /\ Len(exam) >= 2) =>
        ENABLED (Present /\ presented' # <<1>>)

\* C14: at the exam-number prompt every entry that is not the number of a
\* listed file prints the error and asks again, the process going on; the
\* entry k with 1 <= k <= number of listed files selects exactly the k-th
\* listed file; a directory without exam files leads back to the directory
\* selection.
C14_ExamSelectionRecovered ==
    /\ pc = "select_exam" =>
          /\ Len(exam_dir) >= 1
          /\ \A entry \in ExamNumberEntries :
                IF entry # NotANumber /\ 1 <= entry /\ entry <= Len(exam_dir)
                THEN /\ ENABLED (ExamNumberEntry(entry) /\ pc' = "open" /\ exam_path' = exam_dir[entry])
                     /\ ~ENABLED (ExamNumberEntry(entry) /\ ~(pc' = "open" /\ exam_path' = exam_dir[entry]))
                ELSE /\ ENABLED (/\ ExamNumberEntry(entry)
                                 /\ pc' = "select_exam"
                                 /\ out' = <<Tok("MakeValidSelection")>>)
                     /\ ~ENABLED (ExamNumberEntry(entry) /\ pc' # "select_exam")
    /\ Printed("NoExamFiles") => pc = "select_dir"
    /\ pc # "panic_exam_number"

\* The labels printed in front of the choices of the current question.
DisplayedLabels == {(i - 1) + 97 : i \in DOMAIN choices}

NoAttempt == pc' = "respond" /\ UNCHANGED <<num_correct, verdicts, response, idx, presented>>

\* C15: at the "mc" prompt an entry is accepted as a choice exactly when its
\* letter is one of the displayed labels; any other entry asks again, with
\* no verdict, no change of the score and no termination.
C15_SingleChoiceValidation ==
    (pc = "respond" /\ CurrentQuestion.q_type = "mc") =>
        \A c \in LetterEntries :
           IF c \in DisplayedLabels
           THEN /\ ENABLED (MCEntry(c) /\ pc' = "explain" /\ response' = {choices[c - 96]})
                /\ ~ENABLED (MCEntry(c) /\ ~(pc' = "explain" /\ response' = {choices[c - 96]}))
           ELSE /\ ENABLED (MCEntry(c) /\ NoAttempt)
                /\ ~ENABLED (MCEntry(c) /\ ~NoAttempt)

\* C16: at the "ms" prompt a response with an element that is not a
\* displayed label is rejected as a whole and asked again; a response is
\* graded only when every element is a displayed label, and then on the
\* choices its elements denote.
C16_MultiSelectValidation ==
    (pc = "respond" /\ CurrentQuestion.q_type = "ms") =>
        \A picks \in PickEntries :
           IF \A i \in DOMAIN picks : picks[i] \in DisplayedLabels
           THEN LET sel == {choices[picks[i] - 96] : i \in DOMAIN picks} IN
                /\ ENABLED (MSEntry(picks) /\ pc' = "explain" /\ response' = sel)
                /\ ~ENABLED (MSEntry(picks) /\ ~(pc' = "explain" /\ response' = sel))
           ELSE /\ ENABLED (MSEntry(picks) /\ NoAttempt)
                /\ ~ENABLED (MSEntry(picks) /\ ~NoAttempt)

\* C17: at the "ue" prompt the entry "hint", in any letter case, is no
\* attempt: it issues no verdict, leaves the score alone and asks again,
\* showing the non-empty hint strings of the question or, when there are
\* none, an error; any other entry is graded on the question and the entry
\* alone, whether or not hints were requested before it.
C17_HintIsNoAttempt ==
    (pc = "respond" /\ CurrentQuestion.q_type = "ue") =>
        LET q == CurrentQuestion
            hints == SelectSeq(q.choices, LAMBDA h : h # "")
            shown == IF hints # <<>>
                     THEN [i \in 1..Len(hints) |-> <<"Hint", <<hints[i]>>>>]
                     ELSE <<Tok("NoHints")>>
        IN \A input \in UEEntries :
              IF input \in {"hint", "HINT"}
              THEN /\ ENABLED (UEEntry(input) /\ NoAttempt /\ out' = shown)
                   /\ ~ENABLED (UEEntry(input) /\ ~(NoAttempt /\ out' = shown))
              ELSE LET v == IF input \in Range(q.answer) THEN "Correct" ELSE "Incorrect" IN
                   /\ ENABLED (UEEntry(input) /\ verdicts' = Append(verdicts, v))
                   /\ ~ENABLED (UEEntry(input) /\ verdicts' # Append(verdicts, v))

C17_Witness ==
    /\ pc = "respond"
    /\ CurrentQuestion.q_type = "ue"
    /\ out = <<<<"Hint", <<"h">>>>>>
    /\ Len(verdicts) = idx - 1

\* C18: the questions of a session are presented, answered and graded one
\* after the other: a question is presented only when every question
\* presented before it is graded, a verdict is only issued for the question
\* presented last, and the play-again prompt comes only when every selected
\* question is graded.
C18_StrictlySequential ==
    /\ presented = [i \in 1..idx |-> i]
    /\ Len(verdicts) <= Len(presented)
    /\ pc = "present" => Len(verdicts) = Len(presented) /\ Len(presented) < num_questions
    /\ pc = "respond" => Len(verdicts) = Len(presented) - 1
    /\ pc = "explain" => Len(verdicts) = Len(presented) /\ Len(presented) >= 1
    /\ pc = "play_again" => Len(verdicts) = Len(presented) /\ Len(presented) = num_questions

C18_Witness ==
    /\ pc = "play_again"
    /\ presented = <<1, 2>>
    /\ Len(verdicts) = 2

\* C19: playing again does not add an active invocation of study, and the
\* replay starts with a score of 0.
C19_ReplayBoundedStack ==
    [][pc = "play_again" =>
          /\ depth' <= depth
          /\ pc' = "count" => num_correct' = 0]_vars

\* C20: a load failure is reported, leaves no exam and no session and sends
\* the selection round again; the process ends with a non-zero status only
\* when no exam was loaded; a session only runs on an exam that was parsed
\* from a document.
C20_LoadFailureRecovered ==
    /\ (Printed("UnableToParse") \/ Printed("UnableToOpen")) =>
          pc = "select_dir" /\ exam = <<>> /\ depth = 0
    /\ pc \in {"exit1", "panic_exam_number", "panic_q_type", "panic_overflow"} =>
          exam = <<>> /\ depth = 0
    /\ depth > 0 => \E doc \in Documents : exam \in Deserialize(doc)

\* C21: the exam is read-only for the whole session: no step taken while
\* study runs (count prompt, presentation, rejected or accepted entry,
\* grading of any type, explanation, replay, return) changes the question
\* set, the order it iterates in or a field of a question; what the "ms"
\* grading removes the answers from is the user's selection.
C21_ExamReadOnly ==
    [][depth > 0 => exam' = exam]_vars

C21_Witness ==
    /\ depth > 1
    /\ Graded("ms")
    /\ Cardinality(response) = Len(CurrentQuestion.answer)
    /\ LastVerdict = "Correct"
    /\ Range(CurrentQuestion.answer) \subseteq Range(CurrentQuestion.choices)

(***************************************************************************)
(* Progress of a session.  The exams are of questions of the recognized    *)
(* types only: "mc" and "ms" questions with and without choices and a "ue" *)
(* question without hints (serde accepts an empty array for `choices`).    *)
(***************************************************************************)
EmptyChoiceQuestions == {Question(t, <<>>, <<"x">>, "", <<>>) : t \in {"mc", "ms"}}

ProgressPool ==
    EmptyChoiceQuestions
        \cup {Question("mc", <<"x", "X">>, <<"x">>, "e", <<"r">>),
              Question("ms", <<"x", "y">>, <<"y", "x">>, "", <<>>),
              Question("ue", <<"">>, <<"y">>, "", <<"r">>)}

ProgressDocuments == SeqsUpTo(ProgressPool, MaxQuestions)

\* Exam::get_exam when the selected file is one of these documents.
LoadRecognizedExam ==
    /\ pc = "open"
    /\ \E doc \in ProgressDocuments : exam' \in Deserialize(doc)
    /\ exam_dir' = <<>>
    /\ exam_path' = 0
    /\ StudyBegin
    /\ UNCHANGED overflow_checks

ProgressNext ==
    \/ NewFails
    \/ CreateAssetDir
    \/ SelectDirectory
    \/ EnterExamNumber
    \/ LoadFails
    \/ LoadRecognizedExam
    \/ AskCount
    \/ Present
    \/ AnswerMC
    \/ AnswerMS
    \/ AnswerUE
    \/ Explain
    \/ PlayAgainYes
    \/ PlayAgainNo
    \/ Unwind

\* An entry that the prompt accepts.
AcceptedCount == AskCount /\ pc' # "count"

AcceptedResponse == (AnswerMC \/ AnswerMS \/ AnswerUE) /\ pc' = "explain"

\* The process takes the steps that wait for nothing (the loop head, the
\* explanation after the pause); the user keeps entering lines and, at a
\* prompt that accepts some entry, does not enter rejected ones for ever.
ProgressSpec ==
    /\ Init
    /\ [][ProgressNext]_vars
    /\ WF_vars(Present)
    /\ WF_vars(Explain)
    /\ SF_vars(AcceptedCount)
    /\ SF_vars(AcceptedResponse)

\* C22: every session makes progress to completion: at the response prompt
\* of every question of a recognized type some entry of the user is
\* accepted, and a session that has started reaches the play-again prompt
\* with every selected question graded.
C22_SessionCompletes ==
    /\ [](pc = "respond" => ENABLED AcceptedResponse)
    /\ (depth > 0 /\ pc = "count") ~>
          (pc = "play_again" /\ Len(verdicts) = num_questions)

====
